---------------------------- MODULE Spec2Model ----------------------------
(***************************************************************************)
(* The BQSKit tutorial notebook 1_comping_with_bqskit.ipynb as a state     *)
(* machine: the kernel namespace, the notebook's output areas, the files   *)
(* it writes, and the compile call in flight.  The code cells run once     *)
(* each in document order; a cell that calls compile is split into the     *)
(* steps the notebook's prose gives for compile (cluster, partitioning,    *)
(* block synthesis, verification, return).  The outputs of compile are the *)
(* outputs recorded in the notebook; where the notebook records none the   *)
(* output's statistics are unrecorded.                                     *)
(***************************************************************************)
EXTENDS Integers, Sequences, FiniteSets, TLC

\* ------------------------------------------------------------------ bounds
\* Most blocks the partitioner forms in one compile call of the model.
MaxBlocks == 2

\* ------------------------------------------------------- numbers of compile
\* A real number of the notebook (0.5, 1e-3, 5e-2, 1e-10) in units of 1e-11,
\* kept exactly as two limbs: hi * 100000 + lo.
Fx(hi, lo) == [hi |-> hi, lo |-> lo]

FxLess(a, b) == a.hi < b.hi \/ (a.hi = b.hi /\ a.lo < b.lo)

FxAdd(a, b) ==
    [hi |-> a.hi + b.hi + ((a.lo + b.lo) \div 100000),
     lo |-> (a.lo + b.lo) % 100000]

FxZero == Fx(0, 0)

RECURSIVE FxSum(_)
FxSum(s) == IF s = <<>> THEN FxZero ELSE FxAdd(Head(s), FxSum(Tail(s)))

\* error_threshold not given
NoThreshold == [given |-> FALSE, v |-> FxZero]
Threshold(x) == [given |-> TRUE, v |-> x]

\* The default epsilon is 10^-10.
DefaultSynthesisEpsilon == Fx(0, 10)
\* compile(circuit, synthesis_epsilon=0.5, error_threshold=0)
HighErrorEpsilon == Fx(500000, 0)
HighErrorThreshold == Threshold(FxZero)
\* compile(circuit, synthesis_epsilon=1e-3, error_threshold=5e-2)
LooseEpsilon == Fx(1000, 0)
LooseThreshold == Threshold(Fx(50000, 0))

\* ------------------------------------------------------------------- gates
\* SXGate is the name the notebook imports; the library prints the gate as
\* SqrtXGate.
PrintedName(g) == IF g = "SXGate" THEN "SqrtXGate" ELSE g

PrintedNames(G) == {PrintedName(g) : g \in G}

\* "a native gate set including only CNOT gates and U3 gates"
DefaultGateSet == {"CNOTGate", "U3Gate"}

RigettiGateSet == {"CZGate", "RZGate", "SXGate"}
HoneywellLikeGateSet == {"ZZGate", "RZGate", "SXGate"}
CustomGateSet == {"RYYGate", "RZGate", "SXGate"}
CirqGateSet == {"SqrtISwapGate", "SycamoreGate", "CZGate", "RZGate", "SXGate"}

\* ------------------------------------------------------------ connectivity
SeqToSet(s) == {s[i] : i \in DOMAIN s}

Unordered(e) == {e[1], e[2]}

UnorderedEdges(E) == {Unordered(e) : e \in E}

\* all-to-all connectivity on n qubits
AllToAll(n) == {<<a, b>> : a \in 0..(n - 1), b \in 0..(n - 1)} \ {<<a, a>> : a \in 0..(n - 1)}

\* The edge list without the link between the two stars.
CouplingGraphLiteral_NoLink ==
    << <<0, 1>>, <<0, 2>>, <<0, 3>>, <<0, 4>>, <<0, 5>>, <<0, 6>>, <<0, 7>>,
       <<8, 9>>, <<8, 10>>, <<8, 11>>, <<8, 12>>, <<8, 13>>, <<8, 14>>, <<8, 15>> >>

\* The edge list with the link between two leaves, (7, 8), not the centres.
CouplingGraphLiteral_LeafLink ==
    << <<0, 1>>, <<0, 2>>, <<0, 3>>, <<0, 4>>, <<0, 5>>, <<0, 6>>, <<0, 7>>,
       <<8, 9>>, <<8, 10>>, <<8, 11>>, <<8, 12>>, <<8, 13>>, <<8, 14>>, <<8, 15>>,
       <<7, 8>> >>

\* The edge list of the topology cell.
CouplingGraphLiteral ==
    << <<0, 1>>, <<0, 2>>, <<0, 3>>, <<0, 4>>, <<0, 5>>, <<0, 6>>, <<0, 7>>,
       <<8, 9>>, <<8, 10>>, <<8, 11>>, <<8, 12>>, <<8, 13>>, <<8, 14>>, <<8, 15>>,
       <<0, 8>> >>

\* The chain printed as the logical connectivity of the loaded circuit and of
\* the outputs of the first two compile calls.
ChainConnectivity ==
    {<<0, 1>>, <<9, 10>>, <<13, 14>>, <<1, 2>>, <<10, 11>>, <<3, 4>>, <<12, 13>>,
     <<2, 3>>, <<6, 7>>, <<4, 5>>, <<8, 9>>, <<11, 12>>, <<5, 6>>, <<14, 15>>, <<7, 8>>}

\* The connectivity printed by the topology cell.
TopologyConnectivity ==
    {<<0, 1>>, <<0, 7>>, <<8, 14>>, <<0, 4>>, <<0, 3>>, <<8, 10>>, <<0, 6>>, <<8, 13>>,
     <<0, 2>>, <<8, 9>>, <<0, 5>>, <<8, 12>>, <<0, 8>>, <<8, 15>>, <<8, 11>>}

\* ------------------------------------------------------------ the unitary
\* A matrix that also swaps basis states 4 and 5: it flips the last bit
\* whenever the first bit is 1.
toffoli_literal_FirstBitOnly ==
    << <<1, 0, 0, 0, 0, 0, 0, 0>>,
       <<0, 1, 0, 0, 0, 0, 0, 0>>,
       <<0, 0, 1, 0, 0, 0, 0, 0>>,
       <<0, 0, 0, 1, 0, 0, 0, 0>>,
       <<0, 0, 0, 0, 0, 1, 0, 0>>,
       <<0, 0, 0, 0, 1, 0, 0, 0>>,
       <<0, 0, 0, 0, 0, 0, 0, 1>>,
       <<0, 0, 0, 0, 0, 0, 1, 0>> >>

\* toffoli = [...]
toffoli_literal ==
    << <<1, 0, 0, 0, 0, 0, 0, 0>>,
       <<0, 1, 0, 0, 0, 0, 0, 0>>,
       <<0, 0, 1, 0, 0, 0, 0, 0>>,
       <<0, 0, 0, 1, 0, 0, 0, 0>>,
       <<0, 0, 0, 0, 1, 0, 0, 0>>,
       <<0, 0, 0, 0, 0, 1, 0, 0>>,
       <<0, 0, 0, 0, 0, 0, 0, 1>>,
       <<0, 0, 0, 0, 0, 0, 1, 0>> >>

RECURSIVE Log2(_)
Log2(d) == IF d <= 1 THEN 0 ELSE 1 + Log2(d \div 2)

\* The number of qubits a square matrix of dimension 2^n acts on.
UnitaryNumQudits(U) == Log2(Len(U))

\* --------------------------------------------------------- machine models
\* An optional argument of a call: given with a value, or omitted.
Given(x) == [given |-> TRUE, v |-> x]
NotGiven == [given |-> FALSE, v |-> {}]

NoModel == [num_qudits |-> 0, gate_set |-> {}, coupling |-> {}]

\* A MachineModel whose gate set stays empty when none is given.
MachineModel_NoDefaultGateSet(n, gs, cg) ==
    [num_qudits |-> n,
     gate_set   |-> gs.v,
     coupling   |-> IF cg.given THEN SeqToSet(cg.v) ELSE AllToAll(n)]

\* MachineModel(n, gate_set=..., coupling_graph=...): the qubit count, the
\* native gate set and the connectivity of the target; a model built without
\* a gate set has the default one, a model built without a coupling graph is
\* all-to-all.
MachineModel(n, gs, cg) ==
    [num_qudits |-> n,
     gate_set   |-> IF gs.given THEN gs.v ELSE DefaultGateSet,
     coupling   |-> IF cg.given THEN SeqToSet(cg.v) ELSE AllToAll(n)]

\* The machine compile targets when it is given no model.
DefaultModel(n) == MachineModel(n, NotGiven, NotGiven)

NoModelArg == [given |-> FALSE, v |-> NoModel]
ModelArg(m) == [given |-> TRUE, v |-> m]

\* ---------------------------------------------------------------- circuits
Coupling(E) == [known |-> TRUE, edges |-> E]
CouplingUnrecorded == [known |-> FALSE, edges |-> {}]

NoCircuit ==
    [kind |-> "none", cell |-> 0, via |-> "", program |-> "", num_qudits |-> 0,
     recorded |-> FALSE, gate_counts |-> <<>>, coupling |-> CouplingUnrecorded,
     target |-> NoModel, level |-> 0]

\* The statistics the third code cell prints for the loaded program.
LoadedGateCounts ==
    ("RXGate" :> 240) @@ ("RZGate" :> 180) @@ ("HGate" :> 240) @@
    ("CNOTGate" :> 360) @@ ("XGate" :> 8)

\* "the default 16-qubit Heisenberg program"
HeisenbergNumQudits == 16

\* The circuit a loading cell binds to the name circuit.
LoadedCircuit(k, via) ==
    [kind |-> "loaded", cell |-> k, via |-> via, program |-> "qasm/heisenberg16.qasm",
     num_qudits |-> HeisenbergNumQudits,
     recorded |-> TRUE, gate_counts |-> LoadedGateCounts,
     coupling |-> Coupling(ChainConnectivity),
     target |-> NoModel, level |-> 0]

\* A qiskit QuantumCircuit: read from the qasm file, or converted from a
\* bqskit circuit.
NoQc == [origin |-> "", circ |-> NoCircuit]
QcFromQasmFile == [origin |-> "from_qasm_file", circ |-> NoCircuit]
bqskit_to_qiskit(c) == [origin |-> "bqskit_to_qiskit", circ |-> c]

\* --------------------------------------------------------- recorded outputs
\* The code cells, numbered in document order; End is past the last one.
Cells == 1..17
End == 18

\* The recorded gate counts with the outputs of the first two compile cells
\* attached to each other's cell.
RecordedGateCounts_Swapped(k) ==
    CASE k = 4  -> ("U3Gate" :> 303) @@ ("CNOTGate" :> 352)
      [] k = 5  -> ("U3Gate" :> 978) @@ ("CNOTGate" :> 342)
      [] k = 11 -> ("U3Gate" :> 1237) @@ ("CNOTGate" :> 630)
      [] k = 13 -> ("U3Gate" :> 10) @@ ("CNOTGate" :> 6)
      [] OTHER  -> <<>>

\* The gate counts each cell's recorded output shows for the compiled circuit
\* (the empty function where the notebook records no output).
RecordedGateCounts(k) ==
    CASE k = 4  -> ("U3Gate" :> 978) @@ ("CNOTGate" :> 342)
      [] k = 5  -> ("U3Gate" :> 303) @@ ("CNOTGate" :> 352)
      [] k = 7  -> ("SqrtXGate" :> 1016) @@ ("CZGate" :> 246) @@ ("RZGate" :> 1524)
      [] k = 8  -> ("SqrtXGate" :> 996) @@ ("ZZGate" :> 241) @@ ("RZGate" :> 1494)
      [] k = 9  -> ("RYYGate" :> 142) @@ ("SqrtXGate" :> 600) @@ ("RZGate" :> 900)
      [] k = 10 -> ("SqrtXGate" :> 1012) @@ ("CZGate" :> 245) @@ ("RZGate" :> 1518)
      [] k = 11 -> ("U3Gate" :> 1237) @@ ("CNOTGate" :> 630)
      [] k = 13 -> ("U3Gate" :> 10) @@ ("CNOTGate" :> 6)
      [] OTHER  -> <<>>

\* The connectivity each cell's recorded output shows for the compiled circuit.
RecordedCoupling(k) ==
    CASE k = 4  -> Coupling(ChainConnectivity)
      [] k = 5  -> Coupling(ChainConnectivity)
      [] k = 11 -> Coupling(TopologyConnectivity)
      [] OTHER  -> CouplingUnrecorded

\* The cells whose compile output the notebook records.
RecordedCells == {4, 5, 7, 8, 9, 10, 11, 13}

\* The total number of gates of a gate_counts dictionary.
RECURSIVE SumOver(_, _)
SumOver(f, S) ==
    IF S = {} THEN 0
    ELSE LET g == CHOOSE x \in S : TRUE IN f[g] + SumOver(f, S \ {g})

TotalGates(gc) == SumOver(gc, DOMAIN gc)

\* ------------------------------------------------------ names and statements
\* One statement of a cell: the global names it reads and the names it binds.
Stmt(r, w) == [reads |-> r, writes |-> w]

\* An import that binds no name.
Import_BindsNothing(w) == Stmt({}, {})

\* from ... import w
Import(w) == Stmt({}, w)

\* The statements of each code cell, in order.  print is a builtin.  A call of
\* compile_to_gateset reads, besides its arguments, the globals its body uses.
CellStmts(k) ==
    CASE k = 1 -> << Import({"Circuit"}),
                     Stmt({"Circuit"}, {"circuit"}) >>
      [] k = 2 -> << Import({"QuantumCircuit"}),
                     Stmt({"QuantumCircuit"}, {"qc"}),
                     Import({"qiskit_to_bqskit"}),
                     Stmt({"qiskit_to_bqskit", "qc"}, {"circuit"}) >>
      [] k = 3 -> << Stmt({}, {}), Stmt({"circuit"}, {}), Stmt({"circuit"}, {}) >>
      [] k = 4 -> << Import({"compile"}),
                     Stmt({"compile", "circuit"}, {"out_circuit"}),
                     Stmt({}, {}), Stmt({"out_circuit"}, {}), Stmt({"out_circuit"}, {}) >>
      [] k = 5 -> << Stmt({"compile", "circuit"}, {"out_circuit"}),
                     Stmt({}, {}), Stmt({"out_circuit"}, {}), Stmt({"out_circuit"}, {}) >>
      [] k = 6 -> << Stmt({"circuit"}, {}),
                     Import({"bqskit_to_qiskit"}),
                     Stmt({"bqskit_to_qiskit", "circuit"}, {"qc"}) >>
      [] k = 7 -> << Import({"CZGate", "RZGate", "SXGate"}),
                     Stmt({"CZGate", "RZGate", "SXGate"}, {"gate_set"}),
                     Import({"MachineModel"}),
                     Stmt({"MachineModel", "circuit", "gate_set"}, {"model"}),
                     Stmt({"compile", "circuit", "model"}, {"out_circuit"}),
                     Stmt({"out_circuit"}, {}) >>
      [] k = 8 -> << Stmt({}, {"compile_to_gateset"}),
                     Import({"ZZGate"}),
                     Stmt({"ZZGate", "RZGate", "SXGate"}, {"honeywell_like_gate_set"}),
                     Stmt({"compile_to_gateset", "circuit", "honeywell_like_gate_set",
                           "MachineModel", "compile"}, {"out_circuit"}),
                     Stmt({"out_circuit"}, {}) >>
      [] k = 9 -> << Import({"RYYGate"}),
                     Stmt({"RYYGate", "RZGate", "SXGate"}, {"custom_gate_set"}),
                     Stmt({"compile_to_gateset", "circuit", "custom_gate_set",
                           "MachineModel", "compile"}, {"out_circuit"}),
                     Stmt({"out_circuit"}, {}) >>
      [] k = 10 -> << Import({"SqrtISwapGate", "SycamoreGate"}),
                      Stmt({"SqrtISwapGate", "SycamoreGate", "CZGate", "RZGate", "SXGate"},
                           {"cirq_gate_set"}),
                      Stmt({"compile_to_gateset", "circuit", "cirq_gate_set",
                            "MachineModel", "compile"}, {"out_circuit"}),
                      Stmt({"out_circuit"}, {}) >>
      [] k = 11 -> << Stmt({}, {"coupling_graph"}),
                      Stmt({"MachineModel", "coupling_graph"}, {"model"}),
                      Stmt({"compile", "circuit", "model"}, {"out_circuit"}),
                      Stmt({"out_circuit"}, {}), Stmt({"out_circuit"}, {}) >>
      [] k = 12 -> << Import({"H1_1Model"}), Import({"H1_2Model"}),
                      Import({"Sycamore23Model"}), Import({"SycamoreModel"}),
                      Import({"model_from_backend"}),
                      Import({"Aspen11Model"}), Import({"AspenM2Model"}) >>
      [] k = 13 -> << Stmt({}, {"toffoli"}),
                      Stmt({"compile", "toffoli"}, {"toffoli_circuit"}),
                      Stmt({"toffoli_circuit"}, {}) >>
      [] k = 14 -> << Stmt({"compile", "circuit"}, {"out_circuit"}),
                      Stmt({"out_circuit"}, {}) >>
      [] k = 15 -> << Stmt({"compile", "circuit"}, {"out_circuit"}),
                      Stmt({"out_circuit"}, {}) >>
      [] k = 16 -> << Stmt({"compile", "circuit"}, {"out_circuit"}) >>
      [] k = 17 -> << Stmt({"compile", "circuit"}, {"out_circuit"}),
                      Stmt({"out_circuit"}, {}) >>
      [] OTHER  -> << Stmt({"compile", "circuit"}, {"out_circuit"}) >>

\* The position, in its cell, of the statement that calls compile (0: none).
CallIndex(k) ==
    CASE k \in {4, 13} -> 2
      [] k \in {5, 14, 15, 16, 17} -> 1
      [] k = 7 -> 5
      [] k = 8 -> 4
      [] k \in {9, 10, 11} -> 3
      [] k = End -> 1
      [] OTHER -> 0

\* Statements run in order until one reads an unbound name (a NameError):
\* how many ran, and the names bound afterwards.
RECURSIVE RunStmts(_, _)
RunStmts(stmts, b) ==
    IF stmts = <<>> THEN [ok |-> TRUE, done |-> 0, bound |-> b]
    ELSE IF Head(stmts).reads \subseteq b
         THEN LET r == RunStmts(Tail(stmts), b \cup Head(stmts).writes)
              IN  [ok |-> r.ok, done |-> r.done + 1, bound |-> r.bound]
         ELSE [ok |-> FALSE, done |-> 0, bound |-> b]

\* The statements of cell k before its compile call, and after it.
PreStmts(k) == SubSeq(CellStmts(k), 1, CallIndex(k) - 1)
PostStmts(k) == SubSeq(CellStmts(k), CallIndex(k) + 1, Len(CellStmts(k)))
CallStmt(k) == CellStmts(k)[CallIndex(k)]

\* ------------------------------------------------------ the compile call
Omitted == [given |-> FALSE, v |-> 0]
IntArg(x) == [given |-> TRUE, v |-> x]
EpsilonOmitted == [given |-> FALSE, v |-> FxZero]
Epsilon(x) == [given |-> TRUE, v |-> x]

\* compile(input): every optional argument omitted.
DefaultArgs ==
    [model |-> NoModelArg, optimization_level |-> Omitted,
     max_synthesis_size |-> Omitted, synthesis_epsilon |-> EpsilonOmitted,
     error_threshold |-> NoThreshold, extra |-> {}]

\* A default optimization level of zero.
DefaultOptimizationLevel_Zero == 1 - 1

\* "Level one is the default"
DefaultOptimizationLevel == 1
\* max_synthesis_size "is set to three by default"
DefaultMaxSynthesisSize == 3

OptimizationLevelInEffect(args) ==
    IF args.optimization_level.given THEN args.optimization_level.v
    ELSE DefaultOptimizationLevel

MaxSynthesisSizeInEffect(args) ==
    IF args.max_synthesis_size.given THEN args.max_synthesis_size.v
    ELSE DefaultMaxSynthesisSize

SynthesisEpsilonInEffect(args) ==
    IF args.synthesis_epsilon.given THEN args.synthesis_epsilon.v
    ELSE DefaultSynthesisEpsilon

\* The machine a call targets: the model it is given, or the default machine.
TargetInEffect(args, n) ==
    IF args.model.given THEN args.model.v ELSE DefaultModel(n)

\* compile_to_gateset with the gate_set keyword forgotten in its model.
compile_to_gateset_NoGateSet(c, gs) ==
    [DefaultArgs EXCEPT
        !.model = ModelArg(MachineModel(c.num_qudits, NotGiven, NotGiven))]

\* compile_to_gateset building its model from the gate set the global name
\* gate_set holds (Rigetti's) where its body names its parameter.
compile_to_gateset_GlobalGateSet(c, gs) ==
    [DefaultArgs EXCEPT
        !.model = ModelArg(MachineModel(c.num_qudits, Given(RigettiGateSet), NotGiven))]

\* def compile_to_gateset(circuit, gate_set): the arguments of the compile
\* call its body makes; its model is a local of the function.
compile_to_gateset(c, gs) ==
    [DefaultArgs EXCEPT
        !.model = ModelArg(MachineModel(c.num_qudits, Given(gs), NotGiven))]

\* The arguments each cell passes to compile; m is the global name model as
\* the cell's statements before the call leave it.
CallArgs(k, c, m) ==
    CASE k = 5  -> [DefaultArgs EXCEPT !.optimization_level = IntArg(2)]
      [] k = 7  -> [DefaultArgs EXCEPT !.model = ModelArg(m)]
      [] k = 8  -> compile_to_gateset(c, HoneywellLikeGateSet)
      [] k = 9  -> compile_to_gateset(c, CustomGateSet)
      [] k = 10 -> compile_to_gateset(c, CirqGateSet)
      [] k = 11 -> [DefaultArgs EXCEPT !.model = ModelArg(m)]
      [] k = 13 -> [DefaultArgs EXCEPT !.optimization_level = IntArg(3)]
      [] k = 14 -> [DefaultArgs EXCEPT !.max_synthesis_size = IntArg(4)]
      [] k = 15 -> [DefaultArgs EXCEPT !.max_synthesis_size = IntArg(2)]
      [] k = 16 -> [DefaultArgs EXCEPT !.synthesis_epsilon = Epsilon(HighErrorEpsilon),
                                       !.error_threshold = HighErrorThreshold]
      [] k = 17 -> [DefaultArgs EXCEPT !.synthesis_epsilon = Epsilon(LooseEpsilon),
                                       !.error_threshold = LooseThreshold]
      [] OTHER  -> DefaultArgs

\* The level-2 cell binding its result to the name circuit.
CallDest_Circuit(k) ==
    IF k = 13 THEN "toffoli_circuit" ELSE IF k = 5 THEN "circuit" ELSE "out_circuit"

\* The name each cell binds the result of compile to.
CallDest(k) == IF k = 13 THEN "toffoli_circuit" ELSE "out_circuit"

\* A compile call in flight, with every parameter as it is in effect.
NewCall(k, inkind, input, n, args) ==
    [cell |-> k, dest |-> CallDest(k), inkind |-> inkind, input |-> input, n |-> n,
     target |-> TargetInEffect(args, n),
     level  |-> OptimizationLevelInEffect(args),
     mss    |-> MaxSynthesisSizeInEffect(args),
     eps    |-> SynthesisEpsilonInEffect(args),
     thr    |-> args.error_threshold,
     extra  |-> args.extra]

NoCall ==
    [cell |-> 0, dest |-> "", inkind |-> "", input |-> NoCircuit, n |-> 0,
     target |-> NoModel, level |-> 0, mss |-> 0, eps |-> FxZero,
     thr |-> NoThreshold, extra |-> {}]

\* The circuit a successful compile call returns: it implements the program
\* of its input on the call's target, and its statistics are those the
\* notebook records for the cell.
CompiledCircuit(c) ==
    [kind |-> "compiled", cell |-> c.cell, via |-> "compile",
     program |-> IF c.inkind = "circuit" THEN c.input.program ELSE "unitary",
     num_qudits |-> c.n,
     recorded |-> c.cell \in RecordedCells,
     gate_counts |-> RecordedGateCounts(c.cell),
     coupling |-> RecordedCoupling(c.cell),
     target |-> c.target, level |-> c.level]

\* The size check off by one: a unitary of exactly the maximum size is refused.
UnitaryTooLarge_OffByOne(n, mss) == n >= mss

\* Directly passing a unitary larger than the maximum size logs an error.
UnitaryTooLarge(n, mss) == n > mss

Min(a, b) == IF a < b THEN a ELSE b

\* The distances a numerically instantiated block can end with: positive
\* and below the synthesis epsilon (1e-11, 0.02 and 0.4 on the grid).
ErrGrid == {Fx(0, 1), Fx(20000, 0), Fx(400000, 0)}
BlockErrors(eps) == {d \in ErrGrid : FxLess(d, eps)}

\* The warning condition inverted.
ExceedsThreshold_Inverted(e, thr) == FxLess(e, thr)

\* The warning condition of verification.
ExceedsThreshold(e, thr) == FxLess(thr, e)

\* ------------------------------------------------ the README's installation
\* The three platform instruction blocks of the README.
Platforms == {"linux_intel_mac", "m1_mac", "windows"}

\* One line of an instruction block: the prompt it is printed with ("" for
\* the bare "$") and the command after it.
Line(prompt, cmd) == [prompt |-> prompt, cmd |-> cmd]

\* The Linux block with the activation moved below the pip commands.
InstallBlock_ActivateLast(p) ==
    IF p = "linux_intel_mac"
    THEN << Line("", "python3 -m venv TUTORIAL"),
            Line("", "python -m pip install --upgrade pip"),
            Line("", "python -m pip install jupyter openfermion"),
            Line("", "python -m pip install --pre 'bqskit[ext]'"),
            Line("", "source TUTORIAL/bin/activate") >>
    ELSE IF p = "m1_mac"
    THEN << Line("base", "conda create -n TUTORIAL python=3.10"),
            Line("TUTORIAL", "conda activate TUTORIAL"),
            Line("TUTORIAL", "python -m pip install --upgrade pip"),
            Line("TUTORIAL", "python -m pip install jupyter openfermion"),
            Line("TUTORIAL", "python -m pip install --pre 'bqskit[ext]'") >>
    ELSE << Line("", "python3 -m venv TUTORIAL"),
            Line("", "TUTORIAL\\Scripts\\activate"),
            Line("TUTORIAL", "python -m pip install --upgrade pip"),
            Line("TUTORIAL", "python -m pip install jupyter openfermion"),
            Line("TUTORIAL", "python -m pip install --pre 'bqskit[ext]'") >>

\* The lines of each block, as the README prints them.
InstallBlock(p) ==
    IF p = "linux_intel_mac"
    THEN << Line("", "python3 -m venv TUTORIAL"),
            Line("", "source TUTORIAL/bin/activate"),
            Line("TUTORIAL", "python -m pip install --upgrade pip"),
            Line("TUTORIAL", "python -m pip install jupyter openfermion"),
            Line("TUTORIAL", "python -m pip install --pre 'bqskit[ext]'") >>
    ELSE IF p = "m1_mac"
    THEN << Line("base", "conda create -n TUTORIAL python=3.10"),
            Line("TUTORIAL", "conda activate TUTORIAL"),
            Line("TUTORIAL", "python -m pip install --upgrade pip"),
            Line("TUTORIAL", "python -m pip install jupyter openfermion"),
            Line("TUTORIAL", "python -m pip install --pre 'bqskit[ext]'") >>
    ELSE << Line("", "python3 -m venv TUTORIAL"),
            Line("", "TUTORIAL\\Scripts\\activate"),
            Line("TUTORIAL", "python -m pip install --upgrade pip"),
            Line("TUTORIAL", "python -m pip install jupyter openfermion"),
            Line("TUTORIAL", "python -m pip install --pre 'bqskit[ext]'") >>

\* What a command of the README asks of the shell: to create an environment,
\* to activate one, to upgrade pip, or to install packages with pip.
Command(cmd) ==
    CASE cmd \in {"python3 -m venv TUTORIAL", "conda create -n TUTORIAL python=3.10"} ->
            [kind |-> "create", env |-> "TUTORIAL", packages |-> {}, pre |-> FALSE]
      [] cmd \in {"source TUTORIAL/bin/activate", "TUTORIAL\\Scripts\\activate",
                  "conda activate TUTORIAL"} ->
            [kind |-> "activate", env |-> "TUTORIAL", packages |-> {}, pre |-> FALSE]
      [] cmd = "python -m pip install --upgrade pip" ->
            [kind |-> "upgrade", env |-> "", packages |-> {"pip"}, pre |-> FALSE]
      [] cmd = "python -m pip install jupyter openfermion" ->
            [kind |-> "install", env |-> "", packages |-> {"jupyter", "openfermion"},
             pre |-> FALSE]
      [] cmd = "python -m pip install --pre 'bqskit[ext]'" ->
            [kind |-> "install", env |-> "", packages |-> {"bqskit[ext]"}, pre |-> TRUE]

\* The environment a fresh shell is in: the system python, or conda's base.
HomeEnv(p) == IF p = "m1_mac" THEN "base" ELSE "system"

EnvNames == {"system", "base", "TUTORIAL"}

\* The reader's machine before the block is followed: only the home
\* environment exists, with the packages pk already in it and a pip that is
\* (cur) or is not up to date.
CleanShell(p, pk, cur) ==
    [platform    |-> p,
     line        |-> 0,
     envs        |-> {HomeEnv(p)},
     active      |-> HomeEnv(p),
     packages    |-> [e \in EnvNames |-> IF e = HomeEnv(p) THEN {"pip"} \cup pk ELSE {}],
     pip_current |-> [e \in EnvNames |-> e = HomeEnv(p) /\ cur],
     history     |-> <<>>]

\* The next line of the block the reader follows.
NextLine(sh) == InstallBlock(sh.platform)[sh.line + 1]

\* The shell after the reader has typed the next line of the block.  A new
\* environment holds pip only, up to date (cur) or not; activating an
\* environment that does not exist fails and leaves the shell where it is;
\* pip acts on the environment that is active.
RunCommand(sh, cur) ==
    LET c == Command(NextLine(sh).cmd)
        t == [sh EXCEPT !.line = @ + 1,
                        !.history = Append(@, [cmd |-> NextLine(sh).cmd,
                                               kind |-> c.kind,
                                               packages |-> c.packages,
                                               pre |-> c.pre,
                                               active |-> sh.active])]
    IN  CASE c.kind = "create" ->
                [t EXCEPT !.envs = @ \cup {c.env},
                          !.packages[c.env] = {"pip"},
                          !.pip_current[c.env] = cur]
          [] c.kind = "activate" ->
                IF c.env \in sh.envs THEN [t EXCEPT !.active = c.env] ELSE t
          [] c.kind = "upgrade" ->
                [t EXCEPT !.pip_current[sh.active] = TRUE]
          [] c.kind = "install" ->
                [t EXCEPT !.packages[sh.active] = @ \cup c.packages]

\* The shell after the whole block was followed.
RECURSIVE RunBlock(_)
RunBlock(sh) ==
    IF sh.line = Len(InstallBlock(sh.platform)) THEN sh
    ELSE RunBlock(RunCommand(sh, TRUE))

\* The machine the notebook is opened on.
InstalledShell == RunBlock(CleanShell("linux_intel_mac", {}, TRUE))

\* ------------------------------------------------------------------- state
VARIABLES
    pc,               \* the next code cell to run (End: all have run)
    err,              \* "none", or the exception that stopped the run
    bound,            \* the global names bound in the kernel
    circuit, qc, out_circuit, toffoli_circuit, gate_set, model,   \* their values
    saved,            \* the circuit written to heisenberg16_out.qasm
    outputs,          \* per cell, the circuit whose statistics it printed
    call, phase,      \* the compile call in flight and its step
    cluster,          \* the dask cluster the call computes on
    client_args,      \* what the call passed to the dask client constructor
    blocks,           \* the widths of the blocks formed, widest first
    dispatched,       \* how many blocks were distributed to the cluster
    max_error,        \* the upper bound on the error verification computed
    verified,         \* whether the call ran verification
    result,           \* what the call returns
    log,              \* the errors logged and warnings recorded
    user_cluster,     \* whether the reader has launched a cluster of their own
    shell             \* the reader's machine: its python environments and the shell

nsVars == <<circuit, qc, out_circuit, toffoli_circuit, gate_set, model>>
docVars == <<saved, outputs>>
libVars == <<cluster, client_args, blocks, dispatched, max_error, verified, result, log>>
nbVars == <<pc, err, bound, nsVars, docVars, call, phase, libVars, user_cluster>>
vars == <<nbVars, shell>>

\* The kernel, the document and the library before the first cell runs.
NotebookInit ==
    /\ pc = 1
    /\ err = "none"
    /\ bound = {}
    /\ circuit = NoCircuit
    /\ qc = NoQc
    /\ out_circuit = NoCircuit
    /\ toffoli_circuit = NoCircuit
    /\ gate_set = {}
    /\ model = NoModel
    /\ saved = NoCircuit
    /\ outputs = [k \in Cells |-> NoCircuit]
    /\ call = NoCall
    /\ phase = "idle"
    /\ cluster = "none"
    /\ client_args = {}
    /\ blocks = <<>>
    /\ dispatched = 0
    /\ max_error = FxZero
    /\ verified = FALSE
    /\ result = NoCircuit
    /\ log = {}
    /\ user_cluster = FALSE

\* The notebook is opened on a machine where the README's installation is done.
Init ==
    /\ NotebookInit
    /\ shell = InstalledShell

\* The kernel is between cells and no exception has stopped the run.
Ready == err = "none" /\ phase = "idle"

\* A cell without a compile call: its statements ran, or one raised.
Finish(k, r) ==
    /\ bound' = r.bound
    /\ err' = IF r.ok THEN "none" ELSE "NameError"
    /\ pc' = IF r.ok THEN k + 1 ELSE pc

\* The statements before the call ran (r) and the call statement is reached:
\* compile is entered with the cell's arguments, or a NameError is raised.
BeginCall(k, r, inkind, input, n, m) ==
    LET ok == r.ok /\ CallStmt(k).reads \subseteq r.bound IN
    /\ bound' = r.bound
    /\ err' = IF ok THEN "none" ELSE "NameError"
    /\ phase' = IF ok THEN "cluster" ELSE "idle"
    /\ call' = IF ok THEN NewCall(k, inkind, input, n, CallArgs(k, input, m)) ELSE NoCall
    /\ UNCHANGED <<pc, docVars, libVars, user_cluster, shell>>

\* --------------------------------------------------- Section 1 of the notebook
\* circuit = Circuit.from_file('qasm/heisenberg16.qasm')
Cell1 ==
    /\ pc = 1 /\ Ready
    /\ LET r == RunStmts(CellStmts(1), bound) IN
        /\ Finish(1, r)
        /\ circuit' = IF r.done >= 2 THEN LoadedCircuit(1, "Circuit.from_file") ELSE circuit
    /\ UNCHANGED <<qc, out_circuit, toffoli_circuit, gate_set, model, docVars,
                   call, phase, libVars, user_cluster, shell>>

\* qc = QuantumCircuit.from_qasm_file(...); circuit = qiskit_to_bqskit(qc)
Cell2 ==
    /\ pc = 2 /\ Ready
    /\ LET r == RunStmts(CellStmts(2), bound) IN
        /\ Finish(2, r)
        /\ qc' = IF r.done >= 2 THEN QcFromQasmFile ELSE qc
        /\ circuit' = IF r.done >= 4 THEN LoadedCircuit(2, "qiskit_to_bqskit") ELSE circuit
    /\ UNCHANGED <<out_circuit, toffoli_circuit, gate_set, model, docVars,
                   call, phase, libVars, user_cluster, shell>>

\* print circuit.gate_counts and circuit.coupling_graph
Cell3 ==
    /\ pc = 3 /\ Ready
    /\ LET r == RunStmts(CellStmts(3), bound) IN
        /\ Finish(3, r)
        /\ outputs' = IF r.done >= 2 THEN [outputs EXCEPT ![3] = circuit] ELSE outputs
    /\ UNCHANGED <<nsVars, saved, call, phase, libVars, user_cluster, shell>>

\* out_circuit = compile(circuit)
Cell4 ==
    /\ pc = 4 /\ Ready
    /\ BeginCall(4, RunStmts(PreStmts(4), bound), "circuit", circuit, circuit.num_qudits, model)
    /\ UNCHANGED nsVars

\* out_circuit = compile(circuit, optimization_level=2)
Cell5 ==
    /\ pc = 5 /\ Ready
    /\ BeginCall(5, RunStmts(PreStmts(5), bound), "circuit", circuit, circuit.num_qudits, model)
    /\ UNCHANGED nsVars

\* circuit.save('heisenberg16_out.qasm'); qc = bqskit_to_qiskit(circuit)
Cell6 ==
    /\ pc = 6 /\ Ready
    /\ LET r == RunStmts(CellStmts(6), bound) IN
        /\ Finish(6, r)
        /\ saved' = IF r.done >= 1 THEN circuit ELSE saved
        /\ qc' = IF r.done >= 3 THEN bqskit_to_qiskit(circuit) ELSE qc
    /\ UNCHANGED <<circuit, out_circuit, toffoli_circuit, gate_set, model, outputs,
                   call, phase, libVars, user_cluster, shell>>

\* --------------------------------------------------- Section 2 of the notebook
\* gate_set = {CZGate(), RZGate(), SXGate()};
\* model = MachineModel(circuit.num_qudits, gate_set=gate_set);
\* out_circuit = compile(circuit, model=model)
Cell7 ==
    /\ pc = 7 /\ Ready
    /\ LET r == RunStmts(PreStmts(7), bound) IN
        /\ gate_set' = IF r.done >= 2 THEN RigettiGateSet ELSE gate_set
        /\ model' = IF r.done >= 4
                    THEN MachineModel(circuit.num_qudits, Given(gate_set'), NotGiven)
                    ELSE model
        /\ BeginCall(7, r, "circuit", circuit, circuit.num_qudits, model')
    /\ UNCHANGED <<circuit, qc, out_circuit, toffoli_circuit>>

\* out_circuit = compile_to_gateset(circuit, honeywell_like_gate_set)
Cell8 ==
    /\ pc = 8 /\ Ready
    /\ BeginCall(8, RunStmts(PreStmts(8), bound), "circuit", circuit, circuit.num_qudits, model)
    /\ UNCHANGED nsVars

\* out_circuit = compile_to_gateset(circuit, custom_gate_set)
Cell9 ==
    /\ pc = 9 /\ Ready
    /\ BeginCall(9, RunStmts(PreStmts(9), bound), "circuit", circuit, circuit.num_qudits, model)
    /\ UNCHANGED nsVars

\* out_circuit = compile_to_gateset(circuit, cirq_gate_set)
Cell10 ==
    /\ pc = 10 /\ Ready
    /\ BeginCall(10, RunStmts(PreStmts(10), bound), "circuit", circuit, circuit.num_qudits, model)
    /\ UNCHANGED nsVars

\* A topology model one qubit short of the circuit.
TopologyModelQubits_OneShort == 16 - 1

\* model = MachineModel(16, coupling_graph=coupling_graph)
TopologyModelQubits == 16

\* coupling_graph = [...]; model = MachineModel(16, coupling_graph=coupling_graph);
\* out_circuit = compile(circuit, model=model)
Cell11 ==
    /\ pc = 11 /\ Ready
    /\ LET r == RunStmts(PreStmts(11), bound) IN
        /\ model' = IF r.done >= 2
                    THEN MachineModel(TopologyModelQubits, NotGiven, Given(CouplingGraphLiteral))
                    ELSE model
        /\ BeginCall(11, r, "circuit", circuit, circuit.num_qudits, model')
    /\ UNCHANGED <<circuit, qc, out_circuit, toffoli_circuit, gate_set>>

\* the imports of the pre-built models
Cell12 ==
    /\ pc = 12 /\ Ready
    /\ Finish(12, RunStmts(CellStmts(12), bound))
    /\ UNCHANGED <<nsVars, docVars, call, phase, libVars, user_cluster, shell>>

\* --------------------------------------------------- Section 3 of the notebook
\* toffoli = [...]; toffoli_circuit = compile(toffoli, optimization_level=3)
Cell13 ==
    /\ pc = 13 /\ Ready
    /\ BeginCall(13, RunStmts(PreStmts(13), bound), "unitary", NoCircuit,
                 UnitaryNumQudits(toffoli_literal), model)
    /\ UNCHANGED nsVars

\* out_circuit = compile(circuit, max_synthesis_size=4)
Cell14 ==
    /\ pc = 14 /\ Ready
    /\ BeginCall(14, RunStmts(PreStmts(14), bound), "circuit", circuit, circuit.num_qudits, model)
    /\ UNCHANGED nsVars

\* out_circuit = compile(circuit, max_synthesis_size=2)
Cell15 ==
    /\ pc = 15 /\ Ready
    /\ BeginCall(15, RunStmts(PreStmts(15), bound), "circuit", circuit, circuit.num_qudits, model)
    /\ UNCHANGED nsVars

\* out_circuit = compile(circuit, synthesis_epsilon=0.5, error_threshold=0)
Cell16 ==
    /\ pc = 16 /\ Ready
    /\ BeginCall(16, RunStmts(PreStmts(16), bound), "circuit", circuit, circuit.num_qudits, model)
    /\ UNCHANGED nsVars

\* out_circuit = compile(circuit, synthesis_epsilon=1e-3, error_threshold=5e-2)
Cell17 ==
    /\ pc = 17 /\ Ready
    /\ BeginCall(17, RunStmts(PreStmts(17), bound), "circuit", circuit, circuit.num_qudits, model)
    /\ UNCHANGED nsVars

\* ------------------------------------------------ the reader's own compile calls
\* Step 1 of scaling with Dask: the reader launches a cluster.
LaunchCluster ==
    /\ pc = End /\ Ready
    /\ ~user_cluster
    /\ user_cluster' = TRUE
    /\ UNCHANGED <<pc, err, bound, nsVars, docVars, call, phase, libVars, shell>>

\* The arguments a reader passes in an exercise call: a block size, the
\* verification parameters of the notebook's examples, and the keyword that
\* connects the dask client to a running cluster.
ExerciseVerification ==
    {<<EpsilonOmitted, NoThreshold>>,
     <<Epsilon(HighErrorEpsilon), HighErrorThreshold>>,
     <<Epsilon(HighErrorEpsilon), LooseThreshold>>}

\* The widths of the unitaries a reader passes: within every block size of
\* the notebook (2, 3, 4), between them, and above them all.
ExerciseUnitarySizes == {2, 3, 5}

ExerciseArgs ==
    {[model |-> NoModelArg, optimization_level |-> Omitted,
      max_synthesis_size |-> m, synthesis_epsilon |-> v[1],
      error_threshold |-> v[2], extra |-> x] :
        m \in {Omitted, IntArg(2), IntArg(4)},
        v \in ExerciseVerification,
        x \in {{}, {"address"}}}

\* After the notebook has run the reader repeats a compilation with
\* parameters of their own: the loaded circuit or a unitary on n qubits,
\* a block size, an epsilon, verification, and (steps 2 and 3 of scaling with
\* Dask) the keywords that connect to the cluster launched in step 1.
Exercise ==
    /\ pc = End /\ Ready
    /\ \E a \in ExerciseArgs, n \in {0} \cup ExerciseUnitarySizes :
        /\ a.extra # {} => user_cluster
        /\ LET ok == CallStmt(End).reads \subseteq bound
               c  == IF n = 0
                     THEN NewCall(End, "circuit", circuit, circuit.num_qudits, a)
                     ELSE NewCall(End, "unitary", NoCircuit, n, a)
           IN  /\ err' = IF ok THEN "none" ELSE "NameError"
               /\ phase' = IF ok THEN "cluster" ELSE "idle"
               /\ call' = IF ok THEN c ELSE NoCall
    /\ UNCHANGED <<pc, bound, nsVars, docVars, libVars, user_cluster, shell>>

\* ------------------------------------------------------- the steps of compile
\* compile going on to partition without having started a cluster.
StartLocalCluster_NotStarted ==
    /\ phase = "cluster"
    /\ call.extra = {}
    /\ cluster' = "none"
    /\ client_args' = {}
    /\ phase' = "partition"
    /\ UNCHANGED <<pc, err, bound, nsVars, docVars, call, blocks, dispatched,
                   max_error, verified, result, log, user_cluster, shell>>

\* "By default, whenever compile is called a cluster is first started on your
\* local machine and then the compilation continues."
StartLocalCluster ==
    /\ phase = "cluster"
    /\ call.extra = {}
    /\ cluster' = "local"
    /\ client_args' = {}
    /\ phase' = "partition"
    /\ UNCHANGED <<pc, err, bound, nsVars, docVars, call, blocks, dispatched,
                   max_error, verified, result, log, user_cluster, shell>>

\* "The compile function will pass all extra arguments and keyword arguments
\* to a dask client constructor", which connects to the running cluster.
ConnectCluster ==
    /\ phase = "cluster"
    /\ call.extra # {}
    /\ client_args' = call.extra
    /\ cluster' = "connected"
    /\ phase' = "partition"
    /\ UNCHANGED <<pc, err, bound, nsVars, docVars, call, blocks, dispatched,
                   max_error, verified, result, log, user_cluster, shell>>

\* Block widths that follow the default size whatever size the call passes.
BlockWidths_DefaultSize(n, mss) == 1..(IF n < DefaultMaxSynthesisSize THEN n ELSE DefaultMaxSynthesisSize)

\* The block widths a partitioning of an n-qubit circuit can have.
BlockWidths(n, mss) == 1..Min(n, mss)

\* "Large circuits have their gates grouped into blocks of configurable size";
\* max_synthesis_size "determines the maximum width of any block passed to
\* instantiation or synthesis".
Partition ==
    /\ phase = "partition"
    /\ call.inkind = "circuit"
    /\ \E nb \in 1..MaxBlocks :
         \E ws \in [1..nb -> BlockWidths(call.n, call.mss)] :
            /\ \A i \in 1..(nb - 1) : ws[i] >= ws[i + 1]
            /\ blocks' = ws
    /\ dispatched' = 0
    /\ phase' = "synthesis"
    /\ UNCHANGED <<pc, err, bound, nsVars, docVars, call, cluster, client_args,
                   max_error, verified, result, log, user_cluster, shell>>

\* A unitary within the maximum size is synthesized directly, as one block.
AcceptUnitary ==
    /\ phase = "partition"
    /\ call.inkind = "unitary"
    /\ ~UnitaryTooLarge(call.n, call.mss)
    /\ blocks' = <<call.n>>
    /\ dispatched' = 0
    /\ phase' = "synthesis"
    /\ UNCHANGED <<pc, err, bound, nsVars, docVars, call, cluster, client_args,
                   max_error, verified, result, log, user_cluster, shell>>

\* "directly passing unitaries larger than the maximum size to the compile
\* function will log an error"
RejectUnitary ==
    /\ phase = "partition"
    /\ call.inkind = "unitary"
    /\ UnitaryTooLarge(call.n, call.mss)
    /\ log' = log \cup {[cell |-> call.cell, kind |-> "error"]}
    /\ result' = NoCircuit
    /\ phase' = "return"
    /\ UNCHANGED <<pc, err, bound, nsVars, docVars, call, cluster, client_args,
                   blocks, dispatched, max_error, verified, user_cluster, shell>>

\* One block is distributed to the cluster and instantiated there.
Synthesize ==
    /\ phase = "synthesis"
    /\ dispatched < Len(blocks)
    /\ dispatched' = dispatched + 1
    /\ phase' = IF dispatched' = Len(blocks) THEN "verify" ELSE "synthesis"
    /\ UNCHANGED <<pc, err, bound, nsVars, docVars, call, cluster, client_args,
                   blocks, max_error, verified, result, log, user_cluster, shell>>

\* "By default, no verification is done."
SkipVerify ==
    /\ phase = "verify"
    /\ ~call.thr.given
    /\ result' = CompiledCircuit(call)
    /\ phase' = "return"
    /\ UNCHANGED <<pc, err, bound, nsVars, docVars, call, cluster, client_args,
                   blocks, dispatched, max_error, verified, log, user_cluster, shell>>

\* With error_threshold set "the compiler will calculate the maximum Delta
\* and record a warning if it is greater than the error_threshold"; the
\* errors of the blocks are "calculated and summed together".
Verify ==
    /\ phase = "verify"
    /\ call.thr.given
    /\ \E errs \in [1..Len(blocks) -> BlockErrors(call.eps)] :
         /\ max_error' = FxSum(errs)
         /\ log' = IF ExceedsThreshold(max_error', call.thr.v)
                   THEN log \cup {[cell |-> call.cell, kind |-> "warning"]}
                   ELSE log
    /\ verified' = TRUE
    /\ result' = CompiledCircuit(call)
    /\ phase' = "return"
    /\ UNCHANGED <<pc, err, bound, nsVars, docVars, call, cluster, client_args,
                   blocks, dispatched, user_cluster, shell>>

\* compile returns: the cell binds the result, runs its remaining statements
\* (the prints) and the next cell is up.
Return ==
    /\ phase = "return"
    /\ LET k == call.cell
           r == RunStmts(PostStmts(k), bound \cup {call.dest})
       IN  /\ bound' = r.bound
           /\ err' = IF r.ok THEN "none" ELSE "NameError"
           /\ pc' = IF k \in Cells /\ r.ok THEN k + 1 ELSE pc
           /\ out_circuit' = IF call.dest = "out_circuit" THEN result ELSE out_circuit
           /\ toffoli_circuit' = IF call.dest = "toffoli_circuit" THEN result
                                 ELSE toffoli_circuit
           /\ outputs' = IF k \in Cells /\ r.ok /\ PostStmts(k) # <<>>
                         THEN [outputs EXCEPT ![k] = result]
                         ELSE outputs
    /\ phase' = "idle"
    /\ call' = NoCall
    /\ cluster' = "none"
    /\ client_args' = {}
    /\ blocks' = <<>>
    /\ dispatched' = 0
    /\ max_error' = FxZero
    /\ verified' = FALSE
    /\ result' = NoCircuit
    /\ UNCHANGED <<circuit, qc, gate_set, model, saved, log, user_cluster, shell>>

Next ==
    \/ Cell1 \/ Cell2 \/ Cell3 \/ Cell4 \/ Cell5 \/ Cell6
    \/ Cell7 \/ Cell8 \/ Cell9 \/ Cell10 \/ Cell11 \/ Cell12
    \/ Cell13 \/ Cell14 \/ Cell15 \/ Cell16 \/ Cell17
    \/ LaunchCluster \/ Exercise
    \/ StartLocalCluster \/ ConnectCluster
    \/ Partition \/ AcceptUnitary \/ RejectUnitary
    \/ Synthesize \/ SkipVerify \/ Verify \/ Return

Spec == Init /\ [][Next]_vars

\* --------------------------------------------- following the README's block
\* The packages a machine may hold before the installation.
PreInstalled == SUBSET {"jupyter", "openfermion", "bqskit[ext]"}

InstallInit ==
    /\ NotebookInit
    /\ shell \in {CleanShell(p, pk, cur) : p \in Platforms, pk \in PreInstalled,
                                          cur \in BOOLEAN}

\* The reader is at a line of the block that asks for kind.
AtLine(kind) ==
    /\ shell.line < Len(InstallBlock(shell.platform))
    /\ Command(NextLine(shell).cmd).kind = kind

\* python3 -m venv TUTORIAL / conda create -n TUTORIAL python=3.10
CreateEnv ==
    /\ AtLine("create")
    /\ \E cur \in BOOLEAN : shell' = RunCommand(shell, cur)
    /\ UNCHANGED nbVars

\* source TUTORIAL/bin/activate / conda activate TUTORIAL / TUTORIAL\Scripts\activate
ActivateEnv ==
    /\ AtLine("activate")
    /\ shell' = RunCommand(shell, FALSE)
    /\ UNCHANGED nbVars

\* python -m pip install --upgrade pip
UpgradePip ==
    /\ AtLine("upgrade")
    /\ shell' = RunCommand(shell, FALSE)
    /\ UNCHANGED nbVars

\* python -m pip install jupyter openfermion / --pre 'bqskit[ext]'
PipInstall ==
    /\ AtLine("install")
    /\ shell' = RunCommand(shell, FALSE)
    /\ UNCHANGED nbVars

InstallNext == CreateEnv \/ ActivateEnv \/ UpgradePip \/ PipInstall

InstallSpec == InstallInit /\ [][InstallNext]_vars

\* ------------------------------------------------------------------ claims
\* The compiled circuits the notebook holds or has printed.
CompiledSeen ==
    {c \in {outputs[k] : k \in Cells} \cup {out_circuit, toffoli_circuit, result} :
        c.kind = "compiled"}

\* The cells whose model is built with a gate set, and the gate set of each.
GateSetCells == {7, 8, 9, 10}
GateSetOfCell(k) ==
    CASE k = 7 -> {"CZGate", "RZGate", "SXGate"}
      [] k = 8 -> {"ZZGate", "RZGate", "SXGate"}
      [] k = 9 -> {"RYYGate", "RZGate", "SXGate"}
      [] k = 10 -> {"SqrtISwapGate", "SycamoreGate", "CZGate", "RZGate", "SXGate"}
      [] OTHER -> {}

\* C1: every compile call whose model is built with a gate set G targets G,
\* and every gate type of its recorded output's gate_counts is a member of G
\* (SXGate being printed as SqrtXGate); this covers the inline call and the
\* three calls through compile_to_gateset.
C1_GateSetTargeting ==
    \A c \in CompiledSeen :
        c.cell \in GateSetCells =>
            /\ c.target.gate_set = GateSetOfCell(c.cell)
            /\ c.recorded
            /\ DOMAIN c.gate_counts # {}
            /\ DOMAIN c.gate_counts \subseteq PrintedNames(c.target.gate_set)

\* All four gate-set outputs have been printed.
C1_Witness ==
    \A k \in GateSetCells :
        outputs[k].kind = "compiled" /\ "SqrtXGate" \in DOMAIN outputs[k].gate_counts

\* C2: every edge of the recorded connectivity of a compile call's output is,
\* as an unordered pair, an edge of the coupling graph of the call's target;
\* the call whose model is built with the two-star coupling graph targets
\* that graph and its recorded connectivity is a subset of it.
C2_TopologyMapping ==
    \A c \in CompiledSeen :
        /\ c.coupling.known =>
              UnorderedEdges(c.coupling.edges) \subseteq UnorderedEdges(c.target.coupling)
        /\ c.cell = 11 =>
              /\ c.coupling.known
              /\ Cardinality(c.target.coupling) = 15
              /\ <<0, 8>> \in c.coupling.edges

C2_Witness ==
    /\ outputs[11].kind = "compiled"
    /\ out_circuit = outputs[11]
    /\ Cardinality(outputs[11].coupling.edges) = 15

\* The calls that pass no model, and those whose model has no gate set.
NoModelCells == {4, 5, 13, 14, 15, 16, 17, End}
NoGateSetCells == NoModelCells \cup {11}

AllPairs(n) == {e \in (0..(n - 1)) \X (0..(n - 1)) : e[1] # e[2]}

\* C3: a compile call given no model, at any optimization level, targets
\* all-to-all connectivity and the gate set {CNOTGate, U3Gate}; a call given
\* a model with a coupling graph but no gate set targets the same gate set;
\* the recorded outputs of these calls contain only CNOT and U3 gates.
C3_DefaultTarget ==
    /\ \A c \in CompiledSeen :
        c.cell \in NoGateSetCells =>
            /\ c.target.gate_set = {"CNOTGate", "U3Gate"}
            /\ c.cell \in NoModelCells => c.target.coupling = AllPairs(c.num_qudits)
            /\ c.recorded => /\ DOMAIN c.gate_counts # {}
                             /\ DOMAIN c.gate_counts \subseteq {"CNOTGate", "U3Gate"}
    /\ (phase # "idle" /\ call.cell \in NoModelCells) =>
            /\ call.target.gate_set = {"CNOTGate", "U3Gate"}
            /\ call.target.coupling = AllPairs(call.n)

\* The outputs of the calls at levels 1, 2 and 3 without a model and of the
\* call with the coupling-graph model have been printed.
C3_Witness ==
    /\ \A k \in {4, 5, 11, 13} : outputs[k].kind = "compiled" /\ outputs[k].recorded
    /\ {outputs[k].level : k \in {4, 5, 13}} = {1, 2, 3}

\* C4 (as claimed): once the export cell has run, the circuit it wrote to
\* 'heisenberg16_out.qasm' and converted with bqskit_to_qiskit is the compiled
\* circuit returned by the most recent compile call.
C4_ExportsCompiledCircuit ==
    (pc = 7 /\ phase = "idle" /\ err = "none") =>
        /\ saved = out_circuit
        /\ qc.circ = out_circuit

\* Two compiled circuits come from the same input and the same target.
SameInputAndTarget(a, b) ==
    /\ a.program = b.program
    /\ a.num_qudits = b.num_qudits
    /\ a.target = b.target

\* C5 (as claimed): for the same input and target, no entry of gate_counts
\* at optimization level k+1 is larger than the entry at level k.
C5_EntrywiseMonotone ==
    \A a, b \in CompiledSeen :
        (a.recorded /\ b.recorded /\ SameInputAndTarget(a, b) /\ b.level = a.level + 1) =>
            \A g \in DOMAIN b.gate_counts :
                g \in DOMAIN a.gate_counts /\ b.gate_counts[g] <= a.gate_counts[g]

\* C5 (amended): for the same input and target, the total number of gates
\* of the recorded output at optimization level k+1 is no larger than the
\* total at level k.
C5_TotalMonotone ==
    \A a, b \in CompiledSeen :
        (a.recorded /\ b.recorded /\ SameInputAndTarget(a, b) /\ b.level = a.level + 1) =>
            TotalGates(b.gate_counts) <= TotalGates(a.gate_counts)

\* The outputs at level 1 and at level 2 of the same circuit have been printed.
C5_Witness ==
    /\ outputs[4].recorded /\ outputs[5].recorded
    /\ SameInputAndTarget(outputs[4], outputs[5])
    /\ outputs[4].level = 1 /\ outputs[5].level = 2

\* C6: the optimization level in effect for any compile call is one of 1, 2,
\* 3, 4, never 0; a call that omits optimization_level runs at level 1; the
\* levels the notebook passes are 2 and 3.
C6_OptimizationLevels ==
    /\ phase # "idle" =>
        /\ call.level \in {1, 2, 3, 4}
        /\ call.level = (CASE call.cell = 5 -> 2 [] call.cell = 13 -> 3 [] OTHER -> 1)
    /\ \A c \in CompiledSeen :
        /\ c.level \in {1, 2, 3, 4}
        /\ c.level = (CASE c.cell = 5 -> 2 [] c.cell = 13 -> 3 [] OTHER -> 1)

\* A call that omits the level is in flight after the calls at levels 2 and 3
\* have returned.
C6_Witness ==
    /\ phase = "synthesis" /\ call.cell = 14 /\ call.level = 1
    /\ outputs[5].level = 2 /\ outputs[13].level = 3

\* C7: max_synthesis_size is 3 when not given; a unitary on n qubits passed
\* to compile with n greater than the size in effect is not synthesized and
\* an error is logged, a unitary with n at most that size is synthesized as
\* one block and no error is logged; the toffoli literal acts on 3 qubits,
\* is compiled with the default size and is synthesized.
C7_SynthesisSizeLimit ==
    /\ (phase # "idle" /\ call.cell \in Cells \ {14, 15}) => call.mss = 3
    /\ (phase = "return" /\ call.inkind = "unitary") =>
        IF call.n > call.mss
        THEN /\ result = NoCircuit
             /\ [cell |-> call.cell, kind |-> "error"] \in log
             /\ blocks = <<>> /\ dispatched = 0
        ELSE /\ result.kind = "compiled"
             /\ blocks = <<call.n>> /\ dispatched = 1
    /\ [cell |-> 13, kind |-> "error"] \notin log
    /\ (phase # "idle" /\ call.cell = 13) =>
        call.inkind = "unitary" /\ call.n = 3 /\ call.n <= call.mss
    /\ pc > 13 => toffoli_circuit.kind = "compiled" /\ toffoli_circuit.num_qudits = 3

\* A unitary wider than the size in effect has been refused, after the
\* toffoli unitary was synthesized.
C7_Witness ==
    /\ phase = "return" /\ call.inkind = "unitary" /\ call.n > call.mss
    /\ result = NoCircuit
    /\ toffoli_circuit.kind = "compiled"

\* C8: during any compile call every block passed to instantiation or
\* synthesis has width at most the max_synthesis_size in effect, which is 3
\* by default and 4 and 2 in the two block-size examples; when the circuit is
\* wider than that size no block is the whole circuit.
C8_PartitioningBound ==
    /\ \A i \in DOMAIN blocks :
        /\ blocks[i] >= 1
        /\ blocks[i] <= call.mss
        /\ call.n > call.mss => blocks[i] < call.n
    /\ (phase # "idle" /\ call.cell \in Cells) =>
        call.mss = (CASE call.cell = 14 -> 4 [] call.cell = 15 -> 2 [] OTHER -> 3)
    /\ phase \in {"synthesis", "verify"} => blocks # <<>>
    /\ dispatched <= Len(blocks)

\* The 16-qubit circuit is being synthesized in blocks of the full block
\* size 2, and both blocks have been distributed.
C8_Witness ==
    /\ call.cell = 15 /\ call.n = 16
    /\ blocks = <<2, 2>> /\ dispatched = 2

\* The warning of the call in flight.
Warning == [cell |-> call.cell, kind |-> "warning"]

C9_WitnessQuiet ==
    /\ phase = "return" /\ call.thr.given
    /\ verified /\ ~FxLess(call.thr.v, max_error)
    /\ Warning \notin log

\* C10: no compilation work is distributed before a cluster is started or
\* connected: a call without extra arguments has started a cluster on the
\* local machine before it partitions or distributes anything; a call with
\* extra arguments has passed all of them to the dask client constructor and
\* computes on the already running cluster it connected to.
C10_ClusterFirst ==
    /\ (phase \in {"partition", "synthesis", "verify"} \/ dispatched > 0) =>
        /\ cluster # "none"
        /\ call.extra = {} => cluster = "local"
        /\ call.extra # {} =>
              cluster = "connected" /\ client_args = call.extra /\ user_cluster
    /\ (phase # "idle" /\ call.cell \in Cells) => call.extra = {}
    /\ phase \in {"idle", "cluster"} => cluster = "none" /\ dispatched = 0

\* A block has been distributed to the cluster the reader launched, reached
\* with the address keyword.
C10_Witness ==
    /\ phase = "synthesis" /\ dispatched = 1
    /\ cluster = "connected" /\ client_args = {"address"}

\* The order of the commands the claim gives, the same on every platform.
InstallOrder ==
    << [kind |-> "create",   packages |-> {},                         pre |-> FALSE],
       [kind |-> "activate", packages |-> {},                         pre |-> FALSE],
       [kind |-> "upgrade",  packages |-> {"pip"},                    pre |-> FALSE],
       [kind |-> "install",  packages |-> {"jupyter", "openfermion"}, pre |-> FALSE],
       [kind |-> "install",  packages |-> {"bqskit[ext]"},            pre |-> TRUE] >>

\* C11: on every platform the commands run so far are, in order, create the
\* environment TUTORIAL, activate it, upgrade pip, install jupyter and
\* openfermion, install --pre 'bqskit[ext]'; every pip command runs with
\* TUTORIAL active, so it acts on TUTORIAL and leaves the home environment
\* as it was.
C11_InstallOrdering ==
    LET h == shell.history IN
    /\ Len(h) = shell.line /\ Len(h) <= Len(InstallOrder)
    /\ \A i \in DOMAIN h :
        /\ [kind |-> h[i].kind, packages |-> h[i].packages, pre |-> h[i].pre] = InstallOrder[i]
        /\ h[i].kind \in {"create", "activate"} => Command(h[i].cmd).env = "TUTORIAL"
        /\ h[i].kind \in {"upgrade", "install"} =>
              /\ h[i].active = "TUTORIAL"
              /\ \E j, k \in 1..(i - 1) :
                    j < k /\ h[j].kind = "create" /\ h[k].kind = "activate"
    /\ shell.line >= 1 => "TUTORIAL" \in shell.envs
    /\ shell.line >= 2 => shell.active = "TUTORIAL"
    /\ shell.line >= 3 => shell.pip_current["TUTORIAL"]
    /\ shell.line >= 4 => {"jupyter", "openfermion"} \subseteq shell.packages["TUTORIAL"]
    /\ shell.line >= 5 =>
          shell.packages["TUTORIAL"] = {"pip", "jupyter", "openfermion", "bqskit[ext]"}
    /\ \A pk \in PreInstalled, cur \in BOOLEAN :
          LET done == RunBlock(CleanShell(shell.platform, pk, cur)) IN
          /\ done.packages[HomeEnv(shell.platform)] = {"pip"} \cup pk
          /\ done.pip_current[HomeEnv(shell.platform)] = cur

\* The M1 block has been followed to its end on a machine that had none of
\* the packages: conda's base is as it was and TUTORIAL holds them all.
C11_Witness ==
    /\ shell.platform = "m1_mac"
    /\ shell.line = 5
    /\ shell.packages["base"] = {"pip"}
    /\ shell.history[1].active = "base"
    /\ shell.history[3].active = "TUTORIAL"
    /\ shell.packages["TUTORIAL"] = {"pip", "jupyter", "openfermion", "bqskit[ext]"}

\* The Linux and the Windows blocks have been followed to their end.
C11_WitnessLinux == shell.platform = "linux_intel_mac" /\ shell.line = 5 /\ shell.active = "TUTORIAL"
C11_WitnessWindows == shell.platform = "windows" /\ shell.line = 5 /\ shell.active = "TUTORIAL"

\* The names the statements of cell k bind.
WrittenBy(k) == UNION {CellStmts(k)[i].writes : i \in DOMAIN CellStmts(k)}

\* The names the statements of cell k read.
ReadBy(k) == UNION {CellStmts(k)[i].reads : i \in DOMAIN CellStmts(k)}

\* C12: with the code cells run once each in document order no cell reads an
\* unbound name: no NameError is ever raised, the cell that is up runs to its
\* end on the names bound so far, every name a cell read or bound stays bound
\* afterwards, and every name a cell reads is bound by that cell or an
\* earlier one.
C12_LinearExecution ==
    /\ err = "none"
    /\ (phase = "idle" /\ pc \in Cells) =>
          /\ RunStmts(CellStmts(pc), bound).ok
          /\ ReadBy(pc) \subseteq UNION {WrittenBy(j) : j \in 1..pc}
          /\ \A k \in 1..(pc - 1) : (WrittenBy(k) \cup ReadBy(k)) \subseteq bound
    /\ (phase = "return" /\ call.cell \in Cells) =>
          RunStmts(PostStmts(call.cell), bound \cup {call.dest}).ok
    /\ pc = End => \A n \in {"circuit", "compile", "out_circuit", "toffoli_circuit"} : n \in bound

\* Every cell has run, the last one with all the names the claim lists bound.
C12_Witness ==
    /\ pc = End /\ err = "none" /\ phase = "idle"
    /\ {"circuit", "compile", "MachineModel", "compile_to_gateset", "CZGate", "RZGate",
        "SXGate", "out_circuit", "toffoli", "toffoli_circuit"} \subseteq bound
    /\ outputs[17].kind = "compiled"

\* The vertices a set of edges touches, and the neighbours of a vertex.
Vertices(E) == UNION {Unordered(e) : e \in E}

Neighbours(E, v) == {w \in Vertices(E) : <<v, w>> \in E \/ <<w, v>> \in E}

\* The vertices that paths from S reach.
RECURSIVE Reachable(_, _)
Reachable(E, S) ==
    LET T == S \cup UNION {Neighbours(E, v) : v \in S}
    IN  IF T = S THEN S ELSE Reachable(E, T)

\* The global name model holds the model of the topology cell.
TopologyModelBuilt == (pc = 11 /\ phase # "idle") \/ pc > 11

\* C13: the coupling graph the topology cell passes to its model is two
\* eight-qubit stars with a single link: 0 is adjacent to each of 1..7, 8 to
\* each of 9..15, the only other edge is (0, 8); that is 15 distinct edges
\* over the 16 vertices 0..15, connected and acyclic; the model is built with
\* qubit count 16.
C13_TwoStars ==
    /\ TopologyModelBuilt =>
        /\ model.num_qudits = 16
        /\ Cardinality(model.coupling) = 15
    /\ (phase = "cluster" /\ call.cell = 11) =>
        LET E == call.target.coupling IN
        /\ E = model.coupling
        /\ E = {<<0, w>> : w \in 1..7} \cup {<<8, w>> : w \in 9..15} \cup {<<0, 8>>}
        /\ Len(CouplingGraphLiteral) = 15 /\ SeqToSet(CouplingGraphLiteral) = E
        /\ Cardinality(UnorderedEdges(E)) = 15
        /\ \A e \in E : e[1] # e[2]
        /\ Neighbours(E, 0) = (1..7) \cup {8}
        /\ Neighbours(E, 8) = (9..15) \cup {0}
        /\ \A v \in (1..7) : Neighbours(E, v) = {0}
        /\ \A v \in (9..15) : Neighbours(E, v) = {8}
        /\ Vertices(E) = 0..15
        /\ Reachable(E, {0}) = 0..15
        /\ Cardinality(UnorderedEdges(E)) = Cardinality(Vertices(E)) - 1
        /\ call.target.num_qudits = 16

\* The topology cell has built its model and entered compile with it.
C13_Witness ==
    /\ phase = "cluster" /\ call.cell = 11
    /\ model.num_qudits = 16
    /\ <<0, 8>> \in model.coupling

\* The sum of f over the indices 1..n.
RECURSIVE SumTo(_, _)
SumTo(f, n) == IF n = 0 THEN 0 ELSE f[n] + SumTo(f, n - 1)

\* The product of two square matrices of the same dimension, and the identity.
MatMul(A, B) ==
    [i \in 1..Len(A) |->
        [j \in 1..Len(A) |-> SumTo([k \in 1..Len(A) |-> A[i][k] * B[k][j]], Len(A))]]

Identity(d) == [i \in 1..d |-> [j \in 1..d |-> IF i = j THEN 1 ELSE 0]]

\* The basis state U maps basis state j to (basis states count from 0): the
\* row of the only 1 in column j.
ImageOf(U, j) == CHOOSE i \in 0..(Len(U) - 1) : U[i + 1][j + 1] = 1

\* Basis state i of three qubits with its last bit flipped when its first
\* two bits are both 1.
ToffoliAction(i) ==
    IF (i \div 4) % 2 = 1 /\ (i \div 2) % 2 = 1
    THEN (IF i % 2 = 0 THEN i + 1 ELSE i - 1)
    ELSE i

\* C14: the matrix the synthesis cell passes to compile is the Toffoli
\* unitary on three qubits: 8x8 with entries 0 and 1, exactly one 1 in every
\* row and every column; it maps basis state i to i for i in 0..5 and swaps 6
\* and 7, flipping the last bit exactly when the first two bits are both 1;
\* its square is the identity.
C14_ToffoliUnitary ==
    (phase = "cluster" /\ call.cell = 13) =>
        LET U == toffoli_literal IN
        /\ call.inkind = "unitary" /\ call.n = 3
        /\ Len(U) = 8 /\ \A i \in 1..8 : Len(U[i]) = 8
        /\ \A i, j \in 1..8 : U[i][j] \in {0, 1}
        /\ \A i \in 1..8 : SumTo(U[i], 8) = 1
        /\ \A j \in 1..8 : SumTo([i \in 1..8 |-> U[i][j]], 8) = 1
        /\ \A j \in 0..5 : ImageOf(U, j) = j
        /\ ImageOf(U, 6) = 7 /\ ImageOf(U, 7) = 6
        /\ \A j \in 0..7 : ImageOf(U, j) = ToffoliAction(j)
        /\ MatMul(U, U) = Identity(8)

\* The synthesis cell has passed the matrix to compile, as a unitary on three
\* qubits.
C14_Witness ==
    /\ phase = "cluster" /\ call.cell = 13
    /\ call.inkind = "unitary" /\ call.n = UnitaryNumQudits(toffoli_literal)
    /\ toffoli_literal[7][8] = 1 /\ toffoli_literal[8][7] = 1

\* The cells whose compile call passes a model.
ModelCells == {7, 8, 9, 10, 11}

\* C15: in every compile call of the notebook that passes a model, the model
\* has as many qubits as the circuit: the gate-set models take the count from
\* the circuit, and the 16 of the topology model is the qubit count of the
\* loaded circuit, whose recorded logical connectivity is the chain
\* (i, i+1), i in 0..14, over the qubits 0..15.
C15_ModelMatchesCircuit ==
    /\ (phase = "cluster" /\ call.cell \in ModelCells) =>
        /\ call.inkind = "circuit" /\ call.input = circuit
        /\ call.target.num_qudits = call.input.num_qudits
        /\ call.target.num_qudits = call.n
        /\ call.cell = 11 => call.target.num_qudits = 16 /\ call.target = model
        /\ call.input.coupling.known
        /\ call.input.coupling.edges = {<<i, i + 1>> : i \in 0..14}
        /\ Vertices(call.input.coupling.edges) = 0..15
        /\ Cardinality(Vertices(call.input.coupling.edges)) = call.target.num_qudits
    /\ (phase = "idle" /\ pc > 3) =>
        /\ outputs[3] = circuit
        /\ outputs[3].num_qudits = 16
        /\ Cardinality(outputs[3].coupling.edges) = 15

\* The topology call is in flight with its 16-qubit model, after the four
\* gate-set calls have returned circuits on 16 qubits.
C15_Witness ==
    /\ phase = "partition" /\ call.cell = 11
    /\ call.target.num_qudits = 16 /\ circuit.num_qudits = 16
    /\ \A k \in {7, 8, 9, 10} :
          outputs[k].kind = "compiled" /\ outputs[k].target.num_qudits = 16

\* The cells that call compile_to_gateset.
CompileToGatesetCells == {8, 9, 10}

\* The compile call the inline sequence of the Rigetti cell makes for circuit
\* c and gate set gs, were it written in cell k:
\*   model = MachineModel(c.num_qudits, gate_set=gs); compile(c, model=model)
InlineCall(k, c, gs) ==
    NewCall(k, "circuit", c, c.num_qudits,
            CallArgs(7, c, MachineModel(c.num_qudits, Given(gs), NotGiven)))

\* The model the Rigetti cell left in the global name model.
RigettiModel == MachineModel(HeisenbergNumQudits, Given(RigettiGateSet), NotGiven)

\* C16: a call of compile_to_gateset(circuit, gate_set) makes the compile
\* call the inline sequence makes: one model with circuit.num_qudits qubits,
\* the given gate set and no coupling graph (all-to-all), default
\* optimization level; while it runs the global names model, gate_set and
\* out_circuit keep the values they had before the call, and what it returns
\* is the result of that compile call.
C16_CompileToGatesetInline ==
    /\ (phase # "idle" /\ call.cell \in CompileToGatesetCells) =>
        /\ call = InlineCall(call.cell, circuit, GateSetOfCell(call.cell))
        /\ call.target.num_qudits = circuit.num_qudits
        /\ call.target.gate_set = GateSetOfCell(call.cell)
        /\ call.level = 1
        /\ gate_set = RigettiGateSet
        /\ model = RigettiModel /\ model # call.target
        /\ out_circuit = outputs[call.cell - 1]
        /\ phase = "return" => result.target = call.target /\ result.level = 1
    /\ (phase = "cluster" /\ call.cell \in CompileToGatesetCells) =>
        /\ call.target.coupling = AllPairs(circuit.num_qudits)
        /\ \A c \in {circuit, out_circuit},
              gs \in {RigettiGateSet, HoneywellLikeGateSet, CustomGateSet, CirqGateSet} :
              NewCall(call.cell, "circuit", c, c.num_qudits, compile_to_gateset(c, gs))
                  = InlineCall(call.cell, c, gs)
    /\ (phase = "idle" /\ pc \in {9, 10, 11}) =>
        /\ out_circuit = outputs[pc - 1]
        /\ out_circuit.kind = "compiled"
        /\ out_circuit.target =
              MachineModel(circuit.num_qudits, Given(GateSetOfCell(pc - 1)), NotGiven)
        /\ gate_set = RigettiGateSet /\ model = RigettiModel

\* The second call of compile_to_gateset is about to return, with the
\* globals still as the Rigetti cell left them and out_circuit still the
\* result of the first call.
C16_Witness ==
    /\ phase = "return" /\ call.cell = 9
    /\ result.kind = "compiled" /\ result.target.gate_set = CustomGateSet
    /\ model.gate_set = RigettiGateSet /\ gate_set = RigettiGateSet
    /\ out_circuit.target.gate_set = HoneywellLikeGateSet

\* The cells that call compile on the name circuit.
CircuitCallCells == {4, 5, 7, 8, 9, 10, 11, 14, 15, 16, 17}

\* C17: after the second loading cell the name circuit is never assigned
\* again: it stays the circuit that cell loaded; every compile result is
\* bound to out_circuit or toffoli_circuit; so every compile call on circuit
\* compiles the circuit as loaded, never the output of an earlier call.
C17_InputNeverOverwritten ==
    /\ pc > 2 =>
        /\ circuit = LoadedCircuit(2, "qiskit_to_bqskit")
        /\ circuit.kind = "loaded"
    /\ phase # "idle" =>
        /\ call.dest \in {"out_circuit", "toffoli_circuit"}
        /\ call.dest = "toffoli_circuit" <=> call.cell = 13
        /\ call.cell \in Cells => CallStmt(call.cell).writes = {call.dest}
        /\ call.cell \in CircuitCallCells =>
              /\ call.inkind = "circuit"
              /\ call.input = circuit
              /\ call.input.kind = "loaded"
              /\ call.input # out_circuit
    /\ (phase = "idle" /\ pc \in Cells /\ pc > 2) => "circuit" \notin WrittenBy(pc)
    /\ \A c \in CompiledSeen : c.program = "qasm/heisenberg16.qasm" \/ c.cell \notin CircuitCallCells

\* The last cell compiles the circuit as loaded, sixteen cells and ten
\* compile calls after it was loaded.
C17_Witness ==
    /\ pc = 17 /\ phase = "verify" /\ call.cell = 17
    /\ call.input = circuit /\ circuit.cell = 2
    /\ out_circuit.kind = "compiled" /\ out_circuit.cell = 16

=============================================================================
